---------------------------- MODULE Spec2Model ----------------------------
(***************************************************************************)
(* Model of app/logging_setup.py: the level normalizer get_log_level, the  *)
(* level registrar addLoggingLevel, the configurator logging_setup and the *)
(* command-line flow of LoggingArgs / __main__.                            *)
(*                                                                         *)
(* Python values are tagged records [t |-> <type>, v |-> <payload>].       *)
(* A str payload is a sequence of one-character strings, so that int()    *)
(* and str.lower() are computed character by character.                    *)
(***************************************************************************)
EXTENDS Integers, Sequences, FiniteSets, TLC

\* ------------------------------------------------------------------------
\* Bounds of the model
\* ------------------------------------------------------------------------

\* longest arbitrary string fed to the normalizer
MaxLen == 3

\* most calls of the module's functions made by one process
MaxCalls == 3

\* ------------------------------------------------------------------------
\* Python values
\* ------------------------------------------------------------------------

PyIntV(n) == [t |-> "int", v |-> n]

PyStr(s) == [t |-> "str", v |-> s]

PyBool(b) == [t |-> "bool", v |-> b]

PyFloat(k, tenths) == [t |-> "float", v |-> [k |-> k, tenths |-> tenths]]

PyNone == [t |-> "NoneType", v |-> 0]

PyList == [t |-> "list", v |-> 0]

\* isinstance(x, int): bool is a subclass of int
IsInstanceInt(x) == x.t \in {"int", "bool"}

IsInstanceStr(x) == x.t = "str"

\* ------------------------------------------------------------------------
\* Characters and strings
\* ------------------------------------------------------------------------

LowerLetters ==
    <<"a","b","c","d","e","f","g","h","i","j","k","l","m",
      "n","o","p","q","r","s","t","u","v","w","x","y","z">>

UpperLetters ==
    <<"A","B","C","D","E","F","G","H","I","J","K","L","M",
      "N","O","P","Q","R","S","T","U","V","W","X","Y","Z">>

Digits == <<"0","1","2","3","4","5","6","7","8","9">>

IndexIn(seq, c) == CHOOSE i \in 1..Len(seq) : seq[i] = c

IsIn(seq, c) == \E i \in 1..Len(seq) : seq[i] = c

\* str.lower() on one character
LowerChar(c) == IF IsIn(UpperLetters, c) THEN LowerLetters[IndexIn(UpperLetters, c)] ELSE c

UpperChar(c) == IF IsIn(LowerLetters, c) THEN UpperLetters[IndexIn(LowerLetters, c)] ELSE c

\* the input compared as it was typed, .lower() left out
LowerLeftOut(s) == s

\* str.lower()
Lower(s) == [i \in 1..Len(s) |-> LowerChar(s[i])]

IsDigit(c) == IsIn(Digits, c)

DigitVal(c) == IndexIn(Digits, c) - 1

IsSpace(c) == c = " "

\* str.strip() as int() applies it to its argument
RECURSIVE LStrip(_)
LStrip(s) == IF s # <<>> /\ IsSpace(Head(s)) THEN LStrip(Tail(s)) ELSE s

RECURSIVE RStrip(_)
RStrip(s) ==
    IF s # <<>> /\ IsSpace(s[Len(s)]) THEN RStrip(SubSeq(s, 1, Len(s) - 1)) ELSE s

Strip(s) == RStrip(LStrip(s))

\* the plain string a character sequence stands for
RECURSIVE Str(_)
Str(s) == IF s = <<>> THEN "" ELSE Head(s) \o Str(Tail(s))

\* ------------------------------------------------------------------------
\* int(): the conversion get_log_level attempts first
\* ------------------------------------------------------------------------

Converted(n) == [ok |-> TRUE, v |-> n]

Failed(exc) == [ok |-> FALSE, exc |-> exc]

\* digits, with single underscores allowed between digits only
WellFormedDigits(d) ==
    /\ d # <<>>
    /\ \A i \in 1..Len(d) : IsDigit(d[i]) \/ d[i] = "_"
    /\ IsDigit(d[1]) /\ IsDigit(d[Len(d)])
    /\ \A i \in 1..(Len(d) - 1) : ~(d[i] = "_" /\ d[i + 1] = "_")

RECURSIVE DigitsValue(_, _)
DigitsValue(d, acc) ==
    IF d = <<>> THEN acc
    ELSE IF Head(d) = "_" THEN DigitsValue(Tail(d), acc)
    ELSE DigitsValue(Tail(d), 10 * acc + DigitVal(Head(d)))

\* int(<text>) in base 10: surrounding blanks, an optional sign, digits
ParseInt(s) ==
    LET body == Strip(s)
        signed == body # <<>> /\ Head(body) \in {"+", "-"}
        d == IF signed THEN Tail(body) ELSE body
    IN  IF ~WellFormedDigits(d) THEN Failed("ValueError")
        ELSE IF signed /\ Head(body) = "-" THEN Converted(0 - DigitsValue(d, 0))
        ELSE Converted(DigitsValue(d, 0))

\* int(<float>): truncation toward zero; nan and the infinities raise
TruncTenths(n) == IF n >= 0 THEN n \div 10 ELSE 0 - ((0 - n) \div 10)

PyInt(x) ==
    CASE x.t = "int" -> Converted(x.v)
      [] x.t = "bool" -> Converted(IF x.v THEN 1 ELSE 0)
      [] x.t = "str" -> ParseInt(x.v)
      [] x.t = "float" ->
            IF x.v.k = "nan" THEN Failed("ValueError")
            ELSE IF x.v.k = "inf" THEN Failed("OverflowError")
            ELSE Converted(TruncTenths(x.v.tenths))
      [] OTHER -> Failed("TypeError")

\* ------------------------------------------------------------------------
\* get_log_level: the level normalizer
\* ------------------------------------------------------------------------

Returned(n) == [kind |-> "return", value |-> n]

SystemExit(msg) == [kind |-> "SystemExit", msg |-> msg]

Raised(exc) == [kind |-> "raise", exc |-> exc]

InvalidLevelString == "is not a valid log level string"

GenericLevelError == "--log-level should be an integer or valid log level string"

spam == <<"s","p","a","m">>

debug == <<"d","e","b","u","g">>

info == <<"i","n","f","o">>

warning == <<"w","a","r","n","i","n","g">>

success == <<"s","u","c","c","e","s","s">>

error == <<"e","r","r","o","r">>

critical == <<"c","r","i","t","i","c","a","l">>

\* the list the lowered input is looked up in
LevelNames == {spam, debug, info, warning, success, error, critical}

\* the if/elif chain that turns a name of the list into its rank
NameRank(low) ==
    IF low = spam THEN 5
    ELSE IF low = debug THEN 10
    ELSE IF low = info THEN 20
    ELSE IF low = warning THEN 30
    ELSE IF low = success THEN 35
    ELSE IF low = error THEN 40
    ELSE 50  \* elif "critical": the list holds no other name

\* the cast left out: the input keeps its type
CastLeftOut(levelInput) == [escaped |-> FALSE, value |-> levelInput]

\* the try/except around int(levelInput): TypeError and ValueError are
\* swallowed and leave the input as it was, anything else propagates
CastAttempt(levelInput) ==
    LET c == PyInt(levelInput)
    IN  IF c.ok THEN [escaped |-> FALSE, value |-> PyIntV(c.v)]
        ELSE IF c.exc \in {"TypeError", "ValueError"}
             THEN [escaped |-> FALSE, value |-> levelInput]
        ELSE [escaped |-> TRUE, exc |-> c.exc]

\* an unknown name falls back to INFO instead of ending the process
get_log_level_lenient(levelInput) ==
    LET a == CastAttempt(levelInput)
    IN  IF a.escaped THEN Raised(a.exc)
        ELSE IF IsInstanceInt(a.value) THEN Returned(a.value.v)
        ELSE IF IsInstanceStr(a.value)
             THEN IF Lower(a.value.v) \in LevelNames
                  THEN Returned(NameRank(Lower(a.value.v)))
                  ELSE Returned(NameRank(info))
        ELSE SystemExit(GenericLevelError)

get_log_level(levelInput) ==
    LET a == CastAttempt(levelInput)
    IN  IF a.escaped THEN Raised(a.exc)
        ELSE IF IsInstanceInt(a.value) THEN Returned(a.value.v)
        ELSE IF IsInstanceStr(a.value)
             THEN IF Lower(a.value.v) \in LevelNames
                  THEN Returned(NameRank(Lower(a.value.v)))
                  ELSE SystemExit(InvalidLevelString)
        ELSE SystemExit(GenericLevelError)

\* ------------------------------------------------------------------------
\* The logging facility's process-wide state
\* ------------------------------------------------------------------------

VARIABLES
    moduleAttrs,   \* the logging module's attributes: name -> value
    classAttrs,    \* logging.getLoggerClass()'s attributes: name -> value
    levelToName,   \* logging._levelToName: rank -> name
    nameToLevel,   \* logging._nameToLevel: name -> rank
    handlers,      \* the root logger's handlers, in the order attached
    rootLevel,     \* the root logger's level
    openedFiles,   \* the log files this process has opened
    logger,        \* the module global `logger`: "unbound" or "root"
    now,           \* the date datetime.datetime.now() gives
    calls,         \* how many calls this process has made
    result,        \* what the last call did
    regCalls,      \* the addLoggingLevel calls of the last logging_setup
    levelInput,    \* the value handed to get_log_level
    pc,            \* where the command-line flow stands
    argv,          \* the command line: --log-level and --logToFile
    logArgs        \* the LoggingArgs object

vars == <<moduleAttrs, classAttrs, levelToName, nameToLevel, handlers,
          rootLevel, openedFiles, logger, now, calls, result, regCalls,
          levelInput, pc, argv, logArgs>>

procVars == <<moduleAttrs, classAttrs, levelToName, nameToLevel, handlers,
              rootLevel, openedFiles, logger>>

Put(f, k, val) == [x \in DOMAIN f \cup {k} |-> IF x = k THEN val ELSE f[x]]

LevelConst(n) == [kind |-> "level", num |-> n]

LogToRoot(n) == [kind |-> "logToRoot", num |-> n]

LogForLevel(n) == [kind |-> "logForLevel", num |-> n]

Stdlib == [kind |-> "stdlib", num |-> 0]

Foreign == [kind |-> "foreign", num |-> 0]

\* logging._nameToLevel and logging._levelToName as the standard library
\* defines them
StdNameToLevel ==
    [n \in {"CRITICAL", "FATAL", "ERROR", "WARN", "WARNING", "INFO", "DEBUG", "NOTSET"} |->
        CASE n \in {"CRITICAL", "FATAL"} -> 50
          [] n = "ERROR" -> 40
          [] n \in {"WARN", "WARNING"} -> 30
          [] n = "INFO" -> 20
          [] n = "DEBUG" -> 10
          [] OTHER -> 0]

StdLevelToName ==
    [r \in {50, 40, 30, 20, 10, 0} |->
        CASE r = 50 -> "CRITICAL"
          [] r = 40 -> "ERROR"
          [] r = 30 -> "WARNING"
          [] r = 20 -> "INFO"
          [] r = 10 -> "DEBUG"
          [] OTHER -> "NOTSET"]

StdMethods == {"debug", "info", "warning", "warn", "error", "exception", "critical", "fatal", "log"}

\* the logging module's attributes after `import logging`
StdModuleAttrs ==
    [n \in DOMAIN StdNameToLevel \cup StdMethods |->
        IF n \in StdMethods THEN Stdlib ELSE LevelConst(StdNameToLevel[n])]

\* logging.Logger's methods
StdClassAttrs == [n \in StdMethods |-> Stdlib]

\* the root logger is created with level WARNING
RootDefaultLevel == StdNameToLevel["WARNING"]

\* the four pieces of state the registrar reads and writes
Facility == [attrs |-> moduleAttrs, cls |-> classAttrs,
             l2n |-> levelToName, n2l |-> nameToLevel]

\* ------------------------------------------------------------------------
\* addLoggingLevel: the level registrar
\* ------------------------------------------------------------------------

SPAM == <<"S","P","A","M">>

SUCCESS == <<"S","U","C","C","E","S","S">>

SpamRank == 5

SuccessRank == 35

\* `if not methodName: methodName = levelName.lower()`
DefaultMethodName(levelName, methodName) ==
    IF methodName = <<>> THEN Lower(levelName) ELSE methodName

\* the check of the logger class left out
CollisionModuleOnly(F, levelName, methodName) ==
    IF Str(levelName) \in DOMAIN F.attrs
    THEN Str(levelName) \o " already defined in logging module"
    ELSE IF Str(methodName) \in DOMAIN F.attrs
    THEN Str(methodName) \o " already defined in logging module"
    ELSE ""

\* the three hasattr checks, in the order made; "" when none raises
Collision(F, levelName, methodName) ==
    IF Str(levelName) \in DOMAIN F.attrs
    THEN Str(levelName) \o " already defined in logging module"
    ELSE IF Str(methodName) \in DOMAIN F.attrs
    THEN Str(methodName) \o " already defined in logging module"
    ELSE IF Str(methodName) \in DOMAIN F.cls
    THEN Str(methodName) \o " already defined in logger class"
    ELSE ""

\* logging.addLevelName(level, levelName)
addLevelName(F, level, levelName) ==
    [F EXCEPT !.l2n = Put(F.l2n, level, levelName),
              !.n2l = Put(F.n2l, levelName, level)]

\* addLevelName and the three setattr calls
Register(F, levelName, levelNum, methodName) ==
    LET G == addLevelName(F, levelNum, Str(levelName))
    IN  [G EXCEPT !.attrs = Put(Put(G.attrs, Str(levelName), LevelConst(levelNum)),
                                Str(methodName), LogToRoot(levelNum)),
                  !.cls = Put(G.cls, Str(methodName), LogForLevel(levelNum))]

\* the level is registered without any check, clobbering what is there
addLoggingLevelUnchecked(F, levelName, levelNum, methodName) ==
    [raised |-> FALSE, msg |-> "",
     facility |-> Register(F, levelName, levelNum,
                           DefaultMethodName(levelName, methodName))]

\* the facility after the call, and the AttributeError it raised ("" if none)
addLoggingLevel(F, levelName, levelNum, methodName) ==
    LET m == DefaultMethodName(levelName, methodName)
        c == Collision(F, levelName, m)
    IN  IF c # "" THEN [raised |-> TRUE, msg |-> c, facility |-> F]
        ELSE [raised |-> FALSE, msg |-> "",
              facility |-> Register(F, levelName, levelNum, m)]

\* the record kept of one registrar call
RegCall(F, levelName, levelNum, r) ==
    [levelName |-> Str(levelName), levelNum |-> levelNum,
     methodName |-> Str(DefaultMethodName(levelName, <<>>)),
     before |-> F, after |-> r.facility, raised |-> r.raised]

\* ------------------------------------------------------------------------
\* logging_setup: the configurator
\* ------------------------------------------------------------------------

\* what logging_setup reads and writes
Proc == [facility |-> Facility, handlers |-> handlers, rootLevel |-> rootLevel,
         openedFiles |-> openedFiles, logger |-> logger]

Format == "%(asctime)s :: %(levelname)-8s :: %(funcName)-17s - %(message)s"

\* a number as `width` decimal digits, zero padded
RECURSIVE NumStr(_, _)
NumStr(n, width) ==
    IF width = 0 THEN "" ELSE NumStr(n \div 10, width - 1) \o Digits[(n % 10) + 1]

\* date.strftime("%Y%m%d")
Strftime(date) == NumStr(date.y, 4) \o NumStr(date.m, 2) \o NumStr(date.d, 2)

\* f'{datetime.datetime.now().strftime("%Y%m%d")}.log'
LogFileName(date) == Strftime(date) \o ".log"

\* logging.FileHandler(name) with the formatter set: level NOTSET
FileHandler(name) ==
    [kind |-> "FileHandler", target |-> name, level |-> 0, fmt |-> Format,
     colored |-> FALSE]

\* a plain logging.StreamHandler() on stderr, as logging.basicConfig() attaches
StreamHandler(fmt) ==
    [kind |-> "StreamHandler", target |-> "stderr", level |-> 0, fmt |-> fmt,
     colored |-> FALSE]

\* the handler coloredlogs.install() creates
ColoredHandler(level) ==
    [kind |-> "StreamHandler", target |-> "stderr", level |-> level, fmt |-> Format,
     colored |-> TRUE]

\* the file handler is built but never attached
FileHandlerNotAttached(P, logToFile, date) ==
    IF logToFile
    THEN [P EXCEPT !.openedFiles = @ \cup {LogFileName(date)}]
    ELSE P

\* lines 83-86 and 97-98: the file handler is built (the file is opened) and
\* attached to the root logger when logToFile is set
AttachFileHandler(P, logToFile, date) ==
    IF logToFile
    THEN [P EXCEPT !.openedFiles = @ \cup {LogFileName(date)},
                   !.handlers = Append(@, FileHandler(LogFileName(date)))]
    ELSE P

\* lines 100-101: SPAM, then SUCCESS unless SPAM raised
RegisterLevels(F) ==
    LET r1 == addLoggingLevel(F, SPAM, SpamRank, <<>>)
        r2 == addLoggingLevel(r1.facility, SUCCESS, SuccessRank, <<>>)
    IN  IF r1.raised
        THEN [raised |-> TRUE, msg |-> r1.msg, facility |-> r1.facility,
              regCalls |-> <<RegCall(F, SPAM, SpamRank, r1)>>]
        ELSE [raised |-> r2.raised, msg |-> r2.msg, facility |-> r2.facility,
              regCalls |-> <<RegCall(F, SPAM, SpamRank, r1),
                             RegCall(r1.facility, SUCCESS, SuccessRank, r2)>>]

\* Logger.setLevel(level): logging._checkLevel accepts an int, looks a str up
\* in _nameToLevel, and raises for anything else
SetLevel(P, level) ==
    IF level.t \in {"int", "bool"}
    THEN [raised |-> FALSE, exc |-> "",
          proc |-> [P EXCEPT !.rootLevel = IF level.t = "bool"
                                          THEN (IF level.v THEN 1 ELSE 0)
                                          ELSE level.v]]
    ELSE IF level.t = "str"
    THEN IF Str(level.v) \in DOMAIN P.facility.n2l
         THEN [raised |-> FALSE, exc |-> "",
               proc |-> [P EXCEPT !.rootLevel = P.facility.n2l[Str(level.v)]]]
         ELSE [raised |-> TRUE, exc |-> "ValueError", proc |-> P]
    ELSE [raised |-> TRUE, exc |-> "TypeError", proc |-> P]

\* coloredlogs.replace_handler: the first handler on a standard stream
IsStdStream(h) == h.kind = "StreamHandler" /\ h.target \in {"stdout", "stderr"}

RECURSIVE RemoveFirstStd(_)
RemoveFirstStd(hs) ==
    IF hs = <<>> THEN <<>>
    ELSE IF IsStdStream(Head(hs)) THEN Tail(hs)
    ELSE <<Head(hs)>> \o RemoveFirstStd(Tail(hs))

\* Logger.getEffectiveLevel() of the root logger
EffectiveLevel(P) == P.rootLevel

\* lines 112-122: coloredlogs.install(level=logger.level, logger=logger, ...)
\* replaces a stream handler on stdout/stderr by its own, sets that handler's
\* level, and lowers the logger's level to it if it was higher
ColoredlogsInstall(P) ==
    LET level == P.rootLevel
    IN  [P EXCEPT !.handlers = Append(RemoveFirstStd(@), ColoredHandler(level)),
                  !.rootLevel = IF EffectiveLevel(P) > level THEN level ELSE @]

\* the process state after the call, whether it raised, and the registrar
\* calls it made
logging_setup(P, logLevel, logToConsole, logToFile, logPath, date) ==
    LET P1 == [P EXCEPT !.logger = "root"]
        P2 == AttachFileHandler(P1, logToFile, date)
        reg == RegisterLevels(P2.facility)
        P3 == [P2 EXCEPT !.facility = reg.facility]
        lvl == SetLevel(P3, logLevel)
    IN  IF reg.raised
        THEN [raised |-> TRUE, exc |-> "AttributeError", proc |-> P3,
              regCalls |-> reg.regCalls]
        ELSE IF lvl.raised
        THEN [raised |-> TRUE, exc |-> lvl.exc, proc |-> lvl.proc,
              regCalls |-> reg.regCalls]
        ELSE [raised |-> FALSE, exc |-> "", proc |-> ColoredlogsInstall(lvl.proc),
              regCalls |-> reg.regCalls]

\* ------------------------------------------------------------------------
\* Log calls
\* ------------------------------------------------------------------------

\* a record at exactly the logger's level is dropped
IsEnabledForAbove(P, level) == 0 < level /\ level > EffectiveLevel(P)

\* Logger.isEnabledFor(level) on the root logger: logging.disable() is never
\* called, so the manager's threshold is 0
IsEnabledFor(P, level) == 0 < level /\ level >= EffectiveLevel(P)

\* the handlers that take a record of this rank
Receivers(P, level) ==
    {i \in 1..Len(P.handlers) : level >= P.handlers[i].level}

\* logForLevel, and Logger.log: a record is made and handled only if enabled
LogAt(P, level) ==
    [emitted |-> IsEnabledFor(P, level),
     sinks |-> IF IsEnabledFor(P, level)
               THEN {P.handlers[i].target : i \in Receivers(P, level)}
               ELSE {}]

\* ------------------------------------------------------------------------
\* Inputs
\* ------------------------------------------------------------------------

Alphabet == {"1", "7", "-", " ", "_", "a", "."}

\* every string over Alphabet of at most n characters
StringsUpTo(n) == UNION {[1..k -> Alphabet] : k \in 0..n}

\* a name in every mix of upper and lower case
CaseMixes(name) ==
    {[i \in 1..Len(name) |-> IF i \in S THEN UpperChar(name[i]) ELSE name[i]] :
        S \in SUBSET (1..Len(name))}

verbose == <<"v","e","r","b","o","s","e">>

OtherStrings ==
    {verbose, <<" ">> \o spam, info \o <<" ">>, <<"+","1","7">>, <<"0","3","5">>,
     <<"2","0">>, <<"1","e","3">>, <<"T","R","A","C","E">>}

RawStrings ==
    StringsUpTo(MaxLen) \cup OtherStrings \cup UNION {CaseMixes(n) : n \in LevelNames}

IntInputs == {-5, 0, 5, 17, 20, 35}

FloatInputs ==
    {PyFloat("finite", n) : n \in {-37, -5, 0, 37, 170, 200}}
        \cup {PyFloat("nan", 0), PyFloat("inf", 0)}

Inputs ==
    {PyIntV(n) : n \in IntInputs} \cup {PyBool(b) : b \in BOOLEAN}
        \cup {PyStr(r) : r \in RawStrings} \cup FloatInputs
        \cup {PyNone, PyList}

Dates == {[y |-> 2026, m |-> 11, d |-> 5], [y |-> 2027, m |-> 1, d |-> 31]}

\* the levels logging_setup is called with
LevelArgs == {0, 5, 20, 40}

NoResult == [kind |-> "none"]

Absent == [t |-> "absent", v |-> 0]

\* ------------------------------------------------------------------------
\* The state of a fresh process
\* ------------------------------------------------------------------------

FreshFacility ==
    /\ moduleAttrs = StdModuleAttrs
    /\ classAttrs = StdClassAttrs
    /\ levelToName = StdLevelToName
    /\ nameToLevel = StdNameToLevel

FreshLogger ==
    /\ handlers = <<>>
    /\ rootLevel = RootDefaultLevel
    /\ openedFiles = {}
    /\ logger = "unbound"

NoCli ==
    /\ pc = "library"
    /\ argv = [log_level |-> Absent, logToFile |-> FALSE]
    /\ logArgs = [log_level |-> Absent, logToFile |-> FALSE]

\* ------------------------------------------------------------------------
\* The normalizer on its own
\* ------------------------------------------------------------------------

InitNorm ==
    /\ FreshFacility /\ FreshLogger /\ NoCli
    /\ now \in Dates
    /\ calls = 0
    /\ result = NoResult
    /\ regCalls = <<>>
    /\ levelInput \in Inputs

GetLogLevel ==
    /\ calls = 0
    /\ calls' = 1
    /\ result' = get_log_level(levelInput)
    /\ UNCHANGED <<procVars, now, regCalls, levelInput, pc, argv, logArgs>>

NextNorm == GetLogLevel

SpecNorm == InitNorm /\ [][NextNorm]_vars

\* ------------------------------------------------------------------------
\* The module used as a library: any process state it can be imported into,
\* then calls of logging_setup and of the custom-level methods
\* ------------------------------------------------------------------------

\* what other code of the process may have done to the logging facility
\* before logging_setup is first called
PreOps == {"addLevelName(5, TRACE)", "SUCCESS registered", "Logger.spam defined",
           "logging.success defined", "basicConfig()"}

BasicFormat == "%(levelname)s:%(name)s:%(message)s"

TRACE == <<"T","R","A","C","E">>

PreFacility(ops) ==
    LET F0 == [attrs |-> StdModuleAttrs, cls |-> StdClassAttrs,
               l2n |-> StdLevelToName, n2l |-> StdNameToLevel]
        F1 == IF "addLevelName(5, TRACE)" \in ops
              THEN addLevelName(F0, SpamRank, Str(TRACE)) ELSE F0
        F2 == IF "SUCCESS registered" \in ops
              THEN Register(F1, SUCCESS, SuccessRank, success) ELSE F1
        F3 == IF "Logger.spam defined" \in ops
              THEN [F2 EXCEPT !.cls = Put(@, Str(spam), Foreign)] ELSE F2
    IN  IF "logging.success defined" \in ops /\ "SUCCESS registered" \notin ops
        THEN [F3 EXCEPT !.attrs = Put(@, Str(success), Foreign)] ELSE F3

Init ==
    /\ \E ops \in SUBSET PreOps :
          /\ moduleAttrs = PreFacility(ops).attrs
          /\ classAttrs = PreFacility(ops).cls
          /\ levelToName = PreFacility(ops).l2n
          /\ nameToLevel = PreFacility(ops).n2l
          /\ handlers = IF "basicConfig()" \in ops
                        THEN <<StreamHandler(BasicFormat)>> ELSE <<>>
    /\ rootLevel = RootDefaultLevel
    /\ openedFiles = {}
    /\ logger = "unbound"
    /\ NoCli
    /\ now \in Dates
    /\ calls = 0
    /\ result = NoResult
    /\ regCalls = <<>>
    /\ levelInput = PyNone

\* the process state becomes P
Becomes(P) ==
    /\ moduleAttrs' = P.facility.attrs
    /\ classAttrs' = P.facility.cls
    /\ levelToName' = P.facility.l2n
    /\ nameToLevel' = P.facility.n2l
    /\ handlers' = P.handlers
    /\ rootLevel' = P.rootLevel
    /\ openedFiles' = P.openedFiles
    /\ logger' = P.logger

CallLoggingSetup ==
    /\ calls < MaxCalls
    /\ \E lvl \in LevelArgs, toConsole \in BOOLEAN, toFile \in BOOLEAN :
          \E r \in {logging_setup(Proc, PyIntV(lvl), toConsole, toFile, "", now)} :
              /\ Becomes(r.proc)
              /\ regCalls' = r.regCalls
              /\ result' = [kind |-> "logging_setup", logLevel |-> lvl,
                            logToConsole |-> toConsole, logToFile |-> toFile,
                            raised |-> r.raised, exc |-> r.exc, before |-> Proc]
    /\ calls' = calls + 1
    /\ UNCHANGED <<now, levelInput, pc, argv, logArgs>>

\* logging.getLogger().spam(...) or .success(...), once the registrar has
\* given the logger class that method
CallLevelMethod ==
    /\ calls < MaxCalls
    /\ \E m \in {Str(spam), Str(success)} :
          /\ m \in DOMAIN classAttrs
          /\ classAttrs[m].kind = "logForLevel"
          /\ result' = [kind |-> m, rank |-> classAttrs[m].num,
                        emitted |-> LogAt(Proc, classAttrs[m].num).emitted,
                        sinks |-> LogAt(Proc, classAttrs[m].num).sinks]
    /\ calls' = calls + 1
    /\ UNCHANGED <<procVars, now, regCalls, levelInput, pc, argv, logArgs>>

Next == CallLoggingSetup \/ CallLevelMethod

Spec == Init /\ [][Next]_vars

\* ------------------------------------------------------------------------
\* The command-line flow: LoggingArgs and __main__
\* ------------------------------------------------------------------------

\* `log_level: int = logging.INFO`, `logToFile: bool = False`
LoggingArgsDefaults ==
    [log_level |-> PyIntV(StdNameToLevel["INFO"]), logToFile |-> FALSE]

\* Tap fills the declared fields from the command line; log_level_type hands
\* the --log-level text through as it is
ParsedFields(av) ==
    [log_level |-> IF av.log_level = Absent THEN LoggingArgsDefaults.log_level
                   ELSE av.log_level,
     logToFile |-> av.logToFile]

\* a failing normalizer is ignored and the raw text kept
process_args_unchecked(args) ==
    LET r == get_log_level(args.log_level)
    IN  IF r.kind = "return"
        THEN [ended |-> FALSE, outcome |-> r,
              args |-> [args EXCEPT !.log_level = PyIntV(r.value)]]
        ELSE [ended |-> FALSE, outcome |-> r, args |-> args]

\* LoggingArgs.process_args: the normalizer's result replaces the field, or
\* its SystemExit (or exception) ends the process
process_args(args) ==
    LET r == get_log_level(args.log_level)
    IN  IF r.kind = "return"
        THEN [ended |-> FALSE, outcome |-> r,
              args |-> [args EXCEPT !.log_level = PyIntV(r.value)]]
        ELSE [ended |-> TRUE, outcome |-> r, args |-> args]

InitCLI ==
    /\ FreshFacility /\ FreshLogger
    /\ pc = "start"
    /\ argv \in [log_level : {Absent} \cup {PyStr(r) : r \in RawStrings},
                 logToFile : BOOLEAN]
    /\ logArgs = LoggingArgsDefaults
    /\ now \in Dates
    /\ calls = 0
    /\ result = NoResult
    /\ regCalls = <<>>
    /\ levelInput = PyNone

\* line 188: LoggingArgs(...).parse_args(), which ends in process_args
ParseArgs ==
    /\ pc = "start"
    /\ \E r \in {process_args(ParsedFields(argv))} :
           /\ logArgs' = r.args
           /\ result' = r.outcome
           /\ levelInput' = ParsedFields(argv).log_level
           /\ pc' = IF r.ended THEN "exited" ELSE "parsed"
    /\ UNCHANGED <<procVars, now, calls, regCalls, argv>>

\* line 189
MainLoggingSetup ==
    /\ pc = "parsed"
    /\ \E r \in {logging_setup(Proc, logArgs.log_level, TRUE, logArgs.logToFile, "", now)} :
           /\ Becomes(r.proc)
           /\ regCalls' = r.regCalls
           /\ result' = [kind |-> "logging_setup", logLevel |-> logArgs.log_level,
                         logToConsole |-> TRUE, logToFile |-> logArgs.logToFile,
                         raised |-> r.raised, exc |-> r.exc, before |-> Proc]
           /\ pc' = IF r.raised THEN "crashed" ELSE "configured"
    /\ calls' = calls + 1
    /\ UNCHANGED <<now, levelInput, argv, logArgs>>

\* lines 190-195: log(35), info, debug, log(5), debug
MainLogRanks == <<SuccessRank, StdNameToLevel["INFO"], StdNameToLevel["DEBUG"],
                  SpamRank, StdNameToLevel["DEBUG"]>>

MainLogs ==
    /\ pc = "configured"
    /\ result' = [kind |-> "main_logs",
                  emitted |-> [i \in 1..Len(MainLogRanks) |->
                                  LogAt(Proc, MainLogRanks[i]).emitted]]
    /\ pc' = "done"
    /\ UNCHANGED <<procVars, now, calls, regCalls, levelInput, argv, logArgs>>

NextCLI == ParseArgs \/ MainLoggingSetup \/ MainLogs

SpecCLI == InitCLI /\ [][NextCLI]_vars

\* ------------------------------------------------------------------------
\* Vocabulary of the properties
\* ------------------------------------------------------------------------

Range(f) == {f[x] : x \in DOMAIN f}

\* s is `name` in some mix of upper and lower case
IsCaseMixOf(s, name) ==
    /\ Len(s) = Len(name)
    /\ \A i \in 1..Len(s) : s[i] \in {name[i], UpperChar(name[i])}

NamesALevel(s) == \E n \in LevelNames : IsCaseMixOf(s, n)

\* s is a decimal numeral: blanks, an optional sign, digits (single
\* underscores between digits allowed), blanks
IsNumeral(s) ==
    \E a, b \in 1..Len(s) :
        /\ a <= b
        /\ \A k \in 1..(a - 1) : s[k] = " " \/ (k = a - 1 /\ s[k] \in {"+", "-"})
        /\ \A k \in (b + 1)..Len(s) : s[k] = " "
        /\ IsDigit(s[a]) /\ IsDigit(s[b])
        /\ \A k \in a..b : IsDigit(s[k]) \/ (s[k] = "_" /\ IsDigit(s[k - 1]) /\ IsDigit(s[k + 1]))

RECURSIVE Pow10(_)
Pow10(n) == IF n = 0 THEN 1 ELSE 10 * Pow10(n - 1)

RECURSIVE SumOver(_, _)
SumOver(S, s) ==
    IF S = {} THEN 0
    ELSE LET i == CHOOSE x \in S : TRUE
         IN  DigitVal(s[i]) * Pow10(Cardinality({j \in (i + 1)..Len(s) : IsDigit(s[j])}))
                + SumOver(S \ {i}, s)

\* the number a numeral denotes, digit by position
DecimalValue(s) ==
    LET magnitude == SumOver({i \in 1..Len(s) : IsDigit(s[i])}, s)
    IN  IF \E i \in 1..Len(s) : s[i] = "-" THEN 0 - magnitude ELSE magnitude

Normalized == result # NoResult

SetupReturned == result.kind = "logging_setup" /\ ~result.raised

SetupRaised == result.kind = "logging_setup" /\ result.raised

HasConsoleSink == \E i \in 1..Len(handlers) : IsStdStream(handlers[i])

FileSinks == {i \in 1..Len(handlers) : handlers[i].kind = "FileHandler"}

\* the name of the dated log file, written out for the two dates of the model
DatedLogFile == IF now.y = 2026 THEN "20261105.log" ELSE "20270131.log"

\* ------------------------------------------------------------------------
\* Properties of the normalizer (under SpecNorm)
\* ------------------------------------------------------------------------

\* C2: every input that is neither a string nor an integer ends in the
\* generic "should be an integer or valid log level string" exit.
C2_OtherTypesExitGeneric ==
    (Normalized /\ levelInput.t \notin {"str", "int", "bool"})
        => (result.kind = "SystemExit" /\ result.msg = GenericLevelError)

\* C4: a string that is one of the seven names in any mix of case yields
\* exactly that name's rank: 5, 10, 20, 30, 35, 40, 50.
C4_NamesGiveRanks ==
    (Normalized /\ levelInput.t = "str") =>
        \A p \in {<<spam, 5>>, <<debug, 10>>, <<info, 20>>, <<warning, 30>>,
                  <<success, 35>>, <<error, 40>>, <<critical, 50>>} :
            IsCaseMixOf(levelInput.v, p[1]) =>
                (result.kind = "return" /\ result.value = p[2])

\* C4 witness: "sUcCeSs" was normalized to 35.
C4_Witness ==
    /\ Normalized
    /\ levelInput = PyStr(<<"s","U","c","C","e","S","s">>)
    /\ result.kind = "return" /\ result.value = 35

\* C5: an integer, or a string that is a decimal numeral, comes back as that
\* integer; the name table plays no part for it.
C5_NumericUnchanged ==
    Normalized =>
        /\ levelInput.t = "int" =>
              (result.kind = "return" /\ result.value = levelInput.v)
        /\ (levelInput.t = "str" /\ IsNumeral(levelInput.v)) =>
              (result.kind = "return" /\ result.value = DecimalValue(levelInput.v))

\* C5 witness: the string "-17" was normalized to -17.
C5_Witness ==
    /\ Normalized
    /\ levelInput = PyStr(<<"-","1","7">>)
    /\ result.kind = "return" /\ result.value = 0 - 17

\* C6: a string that is neither a numeral nor one of the seven names ends in
\* the invalid-level-string exit.
C6_UnknownStringExits ==
    (Normalized /\ levelInput.t = "str"
        /\ ~IsNumeral(levelInput.v) /\ ~NamesALevel(levelInput.v))
        => (result.kind = "SystemExit" /\ result.msg = InvalidLevelString)

\* C6 witness: "verbose" ended in the invalid-level-string exit.
C6_Witness ==
    /\ Normalized
    /\ levelInput = PyStr(verbose)
    /\ result.kind = "SystemExit" /\ result.msg = InvalidLevelString

\* ------------------------------------------------------------------------
\* Properties of the registrar and the configurator (under Spec)
\* ------------------------------------------------------------------------

\* C1: a logging_setup that raises leaves the root logger's handlers, its
\* level and the level registry exactly as they were before the call.
C1_FailedSetupChangesNothing ==
    SetupRaised =>
        /\ handlers = result.before.handlers
        /\ rootLevel = result.before.rootLevel
        /\ Facility = result.before.facility

\* no two level names share a rank, the standard library's own aliases
\* (WARN of WARNING, FATAL of CRITICAL) set aside
RanksUnique ==
    \A a, b \in DOMAIN nameToLevel \ {"WARN", "FATAL"} :
        a # b => nameToLevel[a] # nameToLevel[b]

\* C3, as the specification states it: ranks are unique in the registry, and a registrar call with
\* a name or a rank that is already registered raises and changes nothing.
C3_UniqueRanksAndCollisionsFail ==
    /\ RanksUnique
    /\ \A i \in 1..Len(regCalls) :
          (\/ regCalls[i].levelName \in DOMAIN regCalls[i].before.n2l
           \/ regCalls[i].levelNum \in Range(regCalls[i].before.n2l))
              => (regCalls[i].raised /\ regCalls[i].after = regCalls[i].before)

\* the level name or the method name is taken in the logging module, or the
\* method name in the logger class
NameTaken(c) ==
    \/ c.levelName \in DOMAIN c.before.attrs
    \/ c.methodName \in DOMAIN c.before.attrs
    \/ c.methodName \in DOMAIN c.before.cls

\* C3, as the registrar's docstring states it: a call raises exactly when the level name or the
\* method name is already an attribute, and then changes nothing; otherwise
\* it registers the level under its rank, whether or not the rank is taken,
\* and leaves every other name's rank alone.
C3_NameCollisionsFail ==
    \A i \in 1..Len(regCalls) :
        LET c == regCalls[i]
        IN  /\ c.raised <=> NameTaken(c)
            /\ c.raised => c.after = c.before
            /\ ~c.raised =>
                  /\ c.after.n2l[c.levelName] = c.levelNum
                  /\ c.after.l2n[c.levelNum] = c.levelName
                  /\ c.after.attrs[c.levelName] = LevelConst(c.levelNum)
                  /\ \A n \in DOMAIN c.before.n2l \ {c.levelName} :
                        c.after.n2l[n] = c.before.n2l[n]

\* C3 witness: SPAM was registered at rank 5 although TRACE already held
\* rank 5, so two names share the rank.
C3_Witness ==
    /\ Len(regCalls) >= 1
    /\ ~regCalls[1].raised
    /\ regCalls[1].levelNum \in Range(regCalls[1].before.n2l)
    /\ nameToLevel["SPAM"] = 5 /\ nameToLevel["TRACE"] = 5

\* the registrar has registered this name before
RegisteredBefore(c) ==
    /\ c.levelName \in DOMAIN c.before.attrs
    /\ c.before.attrs[c.levelName] = LevelConst(c.levelNum)
    /\ c.methodName \in DOMAIN c.before.cls
    /\ c.before.cls[c.methodName] = LogForLevel(c.levelNum)

\* C7: registering a name the registrar has registered before raises and
\* leaves the registry and the logger class unchanged; a logging_setup
\* called after an earlier logging_setup of the process always raises.
C7_SecondRegistrationFails ==
    /\ \A i \in 1..Len(regCalls) :
          RegisteredBefore(regCalls[i]) =>
              (regCalls[i].raised /\ regCalls[i].after = regCalls[i].before)
    /\ (result.kind = "logging_setup" /\ result.before.logger = "root") =>
          (result.raised /\ result.exc = "AttributeError"
              /\ Facility = result.before.facility)

\* C7 witness: a second logging_setup, after one that registered both
\* levels, raised on SPAM.
C7_Witness ==
    /\ SetupRaised
    /\ result.before.logger = "root"
    /\ "SUCCESS" \in DOMAIN result.before.facility.n2l
    /\ Len(regCalls) = 1 /\ regCalls[1].levelName = "SPAM"
    /\ RegisteredBefore(regCalls[1])

\* C9: after a logging_setup that returns, a console sink is attached
\* whatever logToConsole and logToFile were, and the dated file is opened and
\* its sink attached exactly when logToFile was true.
C9_SinksAfterSetup ==
    SetupReturned =>
        /\ HasConsoleSink
        /\ (FileSinks # {}) <=> result.logToFile
        /\ \A i \in FileSinks : handlers[i].target = DatedLogFile
        /\ (DatedLogFile \in openedFiles) <=> result.logToFile
        /\ openedFiles \subseteq {DatedLogFile}

\* C9 witness: set up with logToConsole false and logToFile true; both the
\* console sink and the sink of 20261105.log are attached.
C9_Witness ==
    /\ SetupReturned
    /\ ~result.logToConsole /\ result.logToFile
    /\ HasConsoleSink
    /\ \E i \in FileSinks : handlers[i].target = "20261105.log"

\* a logging_setup of this process has returned: only it installs the
\* coloured console sink
ConfiguredEarlier == \E i \in 1..Len(handlers) : handlers[i].colored

\* C10: after a logging_setup(logLevel) that returns the root logger's level
\* is logLevel; from then on logger.spam (rank 5) and logger.success (rank 35)
\* emit a record exactly when the rank is at least that level, so at the
\* command line's default level spam is suppressed and success is emitted.
C10_LevelFiltersCustomMethods ==
    /\ SetupReturned => rootLevel = result.logLevel
    /\ (result.kind \in {"spam", "success"} /\ ConfiguredEarlier) =>
          /\ result.rank = (IF result.kind = "spam" THEN 5 ELSE 35)
          /\ result.emitted <=> result.rank >= rootLevel
          /\ rootLevel = LoggingArgsDefaults.log_level.v =>
                (result.emitted <=> result.kind = "success")

\* C10 witness: configured at level 20, logger.spam emitted nothing.
C10_Witness ==
    /\ result.kind = "spam"
    /\ ConfiguredEarlier
    /\ rootLevel = 20
    /\ ~result.emitted

\* ------------------------------------------------------------------------
\* Properties of the command-line flow (under SpecCLI)
\* ------------------------------------------------------------------------

\* the --log-level text is neither a numeral nor one of the seven names
InvalidLevelArg ==
    /\ argv.log_level # Absent
    /\ ~IsNumeral(argv.log_level.v)
    /\ ~NamesALevel(argv.log_level.v)

\* C8: logging_setup runs only once the normalizer has returned an integer,
\* which it is then called with; for an invalid --log-level the process ends
\* with no level registered, no sink attached and no log file opened.
C8_NormalizerBeforeConfigurator ==
    /\ logger = "root" =>
          /\ logArgs.log_level.t = "int"
          /\ result.kind = "logging_setup" => result.logLevel = logArgs.log_level
          /\ ~InvalidLevelArg
    /\ (pc # "start" /\ InvalidLevelArg) =>
          /\ pc = "exited"
          /\ result.kind = "SystemExit"
          /\ FreshFacility /\ FreshLogger

\* C8 witness: --log-level verbose --logToFile ended the process before
\* anything was configured.
C8_Witness ==
    /\ pc = "exited"
    /\ argv = [log_level |-> PyStr(verbose), logToFile |-> TRUE]
    /\ handlers = <<>> /\ openedFiles = {}

=============================================================================
